---- MODULE Spec2Model ----
(***************************************************************************)
(* Model of the Excel Auto-Analyst Streamlit script (src/app.py).          *)
(*                                                                         *)
(* The script is re-run from top to bottom on every UI event.  The model   *)
(* has four specifications:                                                *)
(*   Spec         the session: upload, navigation, cleaning toggle, key    *)
(*                entry, chart generation and chat queries, each event     *)
(*                followed by one complete run of the script;              *)
(*   SpecClean    the auto-cleaning branch applied to bounded tables;      *)
(*   SpecClassify the num_cols / cat_cols detection on bounded schemas;    *)
(*   SpecExtract  the code extraction of the chat page on bounded replies. *)
(***************************************************************************)
EXTENDS Integers, Sequences, FiniteSets, TLC

VARIABLES
    \* ---- the session (Spec) ----
    uploaded_file,   \* st.file_uploader value: a file id, or "none"
    page,            \* st.radio value
    clean_mode,      \* st.checkbox value
    text_key,        \* st.text_input value of the key expander
    secrets,         \* st.secrets: <<>> without GROQ_API_KEY, else <<value>>
    session_df,      \* st.session_state['df_cleaned']: <<>> when unset, else <<table>>
    messages,        \* st.session_state.messages: <<>> when unset, else <<log>>
    last,            \* what the most recent run of the script did and showed
    \* ---- auto-cleaning on its own (SpecClean) ----
    raw_df,          \* df, the loaded table
    df_cleaned,      \* <<>> before cleaning, else <<clean(df)>>
    df_recleaned,    \* <<>> before the second cleaning, else <<clean(clean(df))>>
    \* ---- column detection on its own (SpecClassify) ----
    schema_df,       \* the table whose columns are classified
    num_cols,        \* <<>> before detection, else <<list of names>>
    cat_cols,        \* <<>> before detection, else <<list of names>>
    \* ---- code extraction on its own (SpecExtract) ----
    raw_content,     \* the collaborator's reply
    code             \* <<>> before extraction, else <<extracted code>>

vars == <<uploaded_file, page, clean_mode, text_key, secrets, session_df, messages, last,
          raw_df, df_cleaned, df_recleaned, schema_df, num_cols, cat_cols,
          raw_content, code>>

sessionVars == <<uploaded_file, page, clean_mode, text_key, secrets, session_df, messages, last>>
cleanVars == <<raw_df, df_cleaned, df_recleaned>>
classifyVars == <<schema_df, num_cols, cat_cols>>
extractVars == <<raw_content, code>>

(***************************************************************************)
(* Bounds of the model.                                                    *)
(***************************************************************************)
MaxRows == 3
MaxCols == 3
MaxPre == 1
MaxPost == 5
MaxLog == 2

(***************************************************************************)
(* Tables.  A table is [cols, rows]: cols a sequence of [name, dtype],     *)
(* rows a sequence of rows, each a sequence of cells aligned with cols.    *)
(* Cells are written as strings; NaN is the missing value (NaN / None).    *)
(***************************************************************************)
NaN == "NaN"

Range(s) == {s[i] : i \in 1..Len(s)}

SeqsUpTo(S, n) == UNION {[1..k -> S] : k \in 0..n}

ColNames(t) == [i \in 1..Len(t.cols) |-> t.cols[i].name]

\* select_dtypes(include=['number']): the integer and float dtypes; bool,
\* datetime64 and object are not numbers.
IsNumberMutant(dtype) == dtype \in {"int64", "float64", "bool"}
IsNumber(dtype) == dtype \in {"int64", "float64"}

\* select_dtypes(include=['object'])
IsObject(dtype) == dtype = "object"

\* df.select_dtypes(include=['number']).columns.tolist()
NumCols(t) ==
    LET isNum(c) == IsNumber(c.dtype)
        sel == SelectSeq(t.cols, isNum)
    IN [i \in 1..Len(sel) |-> sel[i].name]

\* df.select_dtypes(include=['object']).columns.tolist()
CatCols(t) ==
    LET isObj(c) == IsObject(c.dtype)
        sel == SelectSeq(t.cols, isObj)
    IN [i \in 1..Len(sel) |-> sel[i].name]

\* DataFrame.drop_duplicates(): keep='first'; a row is dropped when an earlier
\* row has the same cells, missing values comparing equal to each other.
DropDuplicates(t) ==
    LET rs == t.rows
        F[i \in 0..Len(rs)] ==
            IF i = 0 THEN <<>>
            ELSE IF \E j \in 1..(i - 1) : rs[j] = rs[i]
                 THEN F[i - 1]
                 ELSE Append(F[i - 1], rs[i])
    IN [cols |-> t.cols, rows |-> F[Len(rs)]]

\* t[names] = t[names].fillna(value)
FillNa(t, names, value) ==
    [cols |-> t.cols,
     rows |-> [i \in 1..Len(t.rows) |->
                 [c \in 1..Len(t.cols) |->
                     IF t.cols[c].name \in Range(names) /\ t.rows[i][c] = NaN
                     THEN value
                     ELSE t.rows[i][c]]]]

\* The clean_mode branch: copy, drop_duplicates, fillna(0) on num_cols,
\* fillna("Unknown") on cat_cols; num_cols and cat_cols are those of df.
Clean(df) ==
    LET nc == NumCols(df)
        cc == CatCols(df)
    IN FillNa(FillNa(DropDuplicates(df), nc, "0"), cc, "Unknown")

(***************************************************************************)
(* SpecClean: the cleaning step on every table of two columns, sales       *)
(* (float64) and region (object), of at most MaxRows rows.                 *)
(***************************************************************************)
CleanCols == <<[name |-> "sales", dtype |-> "float64"],
               [name |-> "region", dtype |-> "object"]>>

CleanRowValues == {<<s, r>> : s \in {NaN, "0", "5"}, r \in {NaN, "Unknown", "east"}}

CleanTables == {[cols |-> CleanCols, rows |-> rs] : rs \in SeqsUpTo(CleanRowValues, MaxRows)}

NoTable == [cols |-> <<>>, rows |-> <<>>]

\* The record of a run of the script that rendered the landing page only.
NoPass ==
    [page |-> "Home", file |-> "none", loaded |-> FALSE, read |-> <<>>,
     session_before |-> <<>>, messages_before |-> <<>>, key_input |-> "",
     client_created |-> FALSE, request_sent |-> FALSE, code_executed |-> FALSE,
     exec_raised |-> FALSE, printed |-> "", shown_text |-> "", prompt |-> "",
     notice |-> "landing"]

SessionIdle ==
    /\ uploaded_file = "none"
    /\ page = "Home"
    /\ clean_mode = FALSE
    /\ text_key = ""
    /\ secrets = <<>>
    /\ session_df = <<>>
    /\ messages = <<>>
    /\ last = NoPass

CleanIdle == raw_df = NoTable /\ df_cleaned = <<>> /\ df_recleaned = <<>>
ClassifyIdle == schema_df = NoTable /\ num_cols = <<>> /\ cat_cols = <<>>
ExtractIdle == raw_content = <<>> /\ code = <<>>

InitClean ==
    /\ raw_df \in CleanTables
    /\ df_cleaned = <<>>
    /\ df_recleaned = <<>>
    /\ SessionIdle /\ ClassifyIdle /\ ExtractIdle

\* Home page with the checkbox ticked: df_cleaned is computed from df.
CleanStep ==
    /\ df_cleaned = <<>>
    /\ df_cleaned' = <<Clean(raw_df)>>
    /\ UNCHANGED <<raw_df, df_recleaned>>
    /\ UNCHANGED <<sessionVars, classifyVars, extractVars>>

\* The cleaned table is loaded again (the downloaded cleaned_data.csv) and cleaned.
CleanAgain ==
    /\ df_cleaned # <<>>
    /\ df_recleaned = <<>>
    /\ df_recleaned' = <<Clean(df_cleaned[1])>>
    /\ UNCHANGED <<raw_df, df_cleaned>>
    /\ UNCHANGED <<sessionVars, classifyVars, extractVars>>

NextClean == CleanStep \/ CleanAgain

SpecClean == InitClean /\ [][NextClean]_vars

NoDuplicateRows(t) ==
    \A i, j \in 1..Len(t.rows) : i # j => t.rows[i] # t.rows[j]

NoMissingIn(t, names) ==
    \A i \in 1..Len(t.rows) : \A c \in 1..Len(t.cols) :
        t.cols[c].name \in Range(names) => t.rows[i][c] # NaN

\* C1: the output of the cleaning step contains no two identical rows and no
\* missing value in any column classified as numeric or categorical.
C1_CleanNoDupNoMissing ==
    df_cleaned # <<>> =>
        /\ NoDuplicateRows(df_cleaned[1])
        /\ NoMissingIn(df_cleaned[1], NumCols(raw_df))
        /\ NoMissingIn(df_cleaned[1], CatCols(raw_df))

\* C2: cleaning is idempotent: cleaning the cleaned table gives the cleaned
\* table again, same rows in the same order.
C2_CleanIdempotent ==
    df_recleaned # <<>> => df_recleaned[1] = df_cleaned[1]
(***************************************************************************)
(* SpecClassify: column detection on every schema of 1..MaxCols columns.   *)
(* Only the dtypes matter to select_dtypes, so the tables have no rows.    *)
(***************************************************************************)
Dtypes == {"int64", "float64", "object", "bool", "datetime64"}

SchemaName(i) == <<"c", i>>

SchemaTables ==
    {[cols |-> [i \in 1..k |-> [name |-> SchemaName(i), dtype |-> d[i]]], rows |-> <<>>] :
        k \in 1..MaxCols, d \in [1..MaxCols -> Dtypes]}

InitClassify ==
    /\ schema_df \in SchemaTables
    /\ num_cols = <<>>
    /\ cat_cols = <<>>
    /\ SessionIdle /\ CleanIdle /\ ExtractIdle

\* "Detect Columns": num_cols and cat_cols of the loaded table.
Classify ==
    /\ num_cols = <<>>
    /\ num_cols' = <<NumCols(schema_df)>>
    /\ cat_cols' = <<CatCols(schema_df)>>
    /\ UNCHANGED schema_df
    /\ UNCHANGED <<sessionVars, cleanVars, extractVars>>

NextClassify == Classify

SpecClassify == InitClassify /\ [][NextClassify]_vars

Chars == {"tick", "python", "x", " "}

Fence == <<"tick", "tick", "tick">>
Marker == <<"tick", "tick", "tick", "python">>

\* A reply with no ```python marker required, or with one between pre and post.
Replies ==
    {pre \o mid \o post :
        pre \in SeqsUpTo(Chars, MaxPre), mid \in {<<>>, Marker},
        post \in SeqsUpTo(Chars, MaxPost)}

\* str.find(sep, from): the least index >= from at which sep occurs, 0 if none.
Find(s, sep, from) ==
    LET hits == {i \in from..(Len(s) - Len(sep) + 1) : SubSeq(s, i, i + Len(sep) - 1) = sep}
    IN IF hits = {} THEN 0 ELSE CHOOSE i \in hits : \A j \in hits : i <= j

\* sep in s
Contains(s, sep) == Find(s, sep, 1) # 0

\* str.split(sep): the pieces between the leftmost non-overlapping occurrences.
RECURSIVE Split(_, _)
Split(s, sep) ==
    LET i == Find(s, sep, 1)
    IN IF i = 0 THEN <<s>>
       ELSE <<SubSeq(s, 1, i - 1)>> \o Split(SubSeq(s, i + Len(sep), Len(s)), sep)

\* str.strip(): leading and trailing whitespace removed.
Strip(s) ==
    LET ink == {i \in 1..Len(s) : s[i] # " "}
    IN IF ink = {} THEN <<>>
       ELSE SubSeq(s, CHOOSE i \in ink : \A j \in ink : i <= j,
                      CHOOSE i \in ink : \A j \in ink : i >= j)

\* code = raw_content; the tagged fence first, then any fence, else the reply.
ExtractCode(raw) ==
    IF Contains(raw, Marker)
    THEN Strip(Split(Split(raw, Marker)[2], Fence)[1])
    ELSE IF Contains(raw, Fence)
         THEN Strip(Split(Split(raw, Fence)[2], Fence)[1])
         ELSE raw

InitExtract ==
    /\ raw_content \in Replies
    /\ code = <<>>
    /\ SessionIdle /\ CleanIdle /\ ClassifyIdle

Extract ==
    /\ code = <<>>
    /\ code' = <<ExtractCode(raw_content)>>
    /\ UNCHANGED raw_content
    /\ UNCHANGED <<sessionVars, cleanVars, classifyVars>>

NextExtract == Extract

SpecExtract == InitExtract /\ [][NextExtract]_vars

\* The text strictly between the first ```python marker and the first ```
\* that follows it (the rest of the reply when none follows), trimmed.
BetweenFences(raw) ==
    LET open == Find(raw, Marker, 1)
        start == open + Len(Marker)
        close == Find(raw, Fence, start)
        body == IF close = 0 THEN SubSeq(raw, start, Len(raw))
                ELSE SubSeq(raw, start, close - 1)
    IN Strip(body)

\* C7: for a reply that contains the ```python marker, the extracted code is
\* exactly the text between that marker and the first closing fence after
\* it, trimmed of surrounding whitespace.
C7_ExtractBetweenFences ==
    (code # <<>> /\ Contains(raw_content, Marker)) =>
        code[1] = BetweenFences(raw_content)
(***************************************************************************)
(* Spec: the session.  Every UI event re-runs the script from the top      *)
(* with the widgets' current values; RunScript is that run.                *)
(***************************************************************************)
Pages == {"Home", "Dashboard", "Custom", "Chat"}

SalesTable ==
    [cols |-> <<[name |-> "sales", dtype |-> "float64"],
                [name |-> "region", dtype |-> "object"]>>,
     rows |-> <<<<"5", "east">>, <<"5", "east">>, <<NaN, NaN>>>>]

StockTable ==
    [cols |-> <<[name |-> "qty", dtype |-> "int64"],
                [name |-> "in_stock", dtype |-> "bool"]>>,
     rows |-> <<<<"1", "True">>, <<"2", "False">>>>]

\* The uploads tried: the uploader passes csv and xlsx names in either case;
\* content is what the bytes really are ("bad": neither parser reads them).
Files ==
    [id \in {"sales.csv", "stock.xlsx", "SALES.CSV", "STOCK.XLSX", "broken.xlsx"} |->
        CASE id = "sales.csv"   -> [suffix |-> ".csv",  content |-> "csv",  table |-> SalesTable]
          [] id = "stock.xlsx"  -> [suffix |-> ".xlsx", content |-> "xlsx", table |-> StockTable]
          [] id = "SALES.CSV"   -> [suffix |-> ".CSV",  content |-> "csv",  table |-> SalesTable]
          [] id = "STOCK.XLSX"  -> [suffix |-> ".XLSX", content |-> "xlsx", table |-> StockTable]
          [] id = "broken.xlsx" -> [suffix |-> ".xlsx", content |-> "bad",  table |-> NoTable]]

FileIds == DOMAIN Files

\* load_data with the except branch returning an empty table instead of None.
LoadDataMutant(id) ==
    LET f == Files[id]
    IN IF f.suffix = ".csv"
       THEN IF f.content = "csv" THEN <<f.table>> ELSE <<NoTable>>
       ELSE IF f.content = "xlsx" THEN <<f.table>> ELSE <<NoTable>>

\* load_data: read_csv when the name ends in '.csv', read_excel for any other
\* name; a parser that raises gives None (<<>>) after st.error.
LoadData(id) ==
    LET f == Files[id]
    IN IF f.suffix = ".csv"
       THEN IF f.content = "csv" THEN <<f.table>> ELSE <<>>
       ELSE IF f.content = "xlsx" THEN <<f.table>> ELSE <<>>

\* if groq_key: taken as `is not None`.
TruthyMutant(k) == TRUE
\* if groq_key: a non-empty string.
Truthy(k) == k # ""

\* st.secrets["GROQ_API_KEY"], else the text input's value.
ResolveKey(sec, tk) == IF sec # <<>> THEN sec[1] ELSE tk

\* What exec of the extracted code can do: write out to stdout, raise, bind
\* fig to a Plotly figure ("figure") or to something st.plotly_chart rejects
\* ("other"), and change df in place (df is the stored table itself).
Programs ==
    [out : {"", "partial"}, raises : BOOLEAN, fig : {"none", "figure", "other"},
     mutates : BOOLEAN]

NoProgram == [out |-> "", raises |-> FALSE, fig |-> "none", mutates |-> FALSE]

\* An in-place change by generated code, e.g. df.drop(df.index, inplace=True).
Mutate(t) == [cols |-> t.cols, rows |-> <<>>]

UserMsg(q) == [role |-> "user", content |-> q]
AssistantMsg(c) == [role |-> "assistant", content |-> c]

\* The chat page from the key handling on, df_active being session_df[1].
\* r is the record of the run so far.
ChatPage(r, sdf, msgs, sec, tk, prompt, api, prog) ==
    LET groq_key == ResolveKey(sec, tk)
        log0 == IF msgs = <<>> THEN <<>> ELSE msgs[1]
        log1 == Append(log0, UserMsg(prompt))
        log2 == IF prog.out # "" THEN Append(log1, AssistantMsg(prog.out)) ELSE log1
        log3 == Append(log2, AssistantMsg("(Chart Generated)"))
        ran == [r EXCEPT !.client_created = TRUE, !.request_sent = TRUE,
                         !.code_executed = TRUE, !.printed = prog.out,
                         !.prompt = prompt]
        sdf2 == IF prog.mutates THEN <<Mutate(sdf[1])>> ELSE sdf
    IN  IF ~Truthy(groq_key)
        THEN [session_df |-> sdf, messages |-> msgs,
              last |-> [r EXCEPT !.notice = "need_key"]]
        ELSE IF prompt = ""
        THEN [session_df |-> sdf, messages |-> <<log0>>,
              last |-> [r EXCEPT !.client_created = TRUE, !.notice = ""]]
        ELSE IF api = "error"
        THEN [session_df |-> sdf, messages |-> <<log1>>,
              last |-> [r EXCEPT !.client_created = TRUE, !.request_sent = TRUE,
                                 !.prompt = prompt, !.notice = "init_error"]]
        ELSE IF prog.raises
        THEN [session_df |-> sdf2, messages |-> <<log1>>,
              last |-> [ran EXCEPT !.exec_raised = TRUE, !.notice = "exec_error"]]
        ELSE IF prog.fig = "other"
        THEN [session_df |-> sdf2, messages |-> <<log2>>,
              last |-> [ran EXCEPT !.shown_text = prog.out, !.notice = "exec_error"]]
        ELSE IF prog.fig = "figure"
        THEN [session_df |-> sdf2, messages |-> <<log3>>,
              last |-> [ran EXCEPT !.shown_text = prog.out, !.notice = ""]]
        ELSE [session_df |-> sdf2, messages |-> <<log2>>,
              last |-> [ran EXCEPT !.shown_text = prog.out,
                                   !.notice = IF prog.out = "" THEN "no_output" ELSE ""]]

\* One run of the script: f, p, cm, tk are the widget values, prompt the
\* submitted question ("" when none), gen the Generate Analysis button, api
\* and prog what the collaborator and the generated code do.
RunScript(f, p, cm, tk, sdf, msgs, sec, prompt, gen, api, prog) ==
    LET df == IF f = "none" THEN <<>> ELSE LoadData(f)
        r0 == [NoPass EXCEPT !.page = p, !.file = f, !.session_before = sdf,
                             !.messages_before = msgs, !.key_input = tk]
        same(r) == [session_df |-> sdf, messages |-> msgs, last |-> r]
    IN  IF f = "none" THEN same(r0)
        ELSE IF df = <<>> THEN same([r0 EXCEPT !.notice = "load_error"])
        ELSE
        LET nc == NumCols(df[1])
            r1 == [r0 EXCEPT !.loaded = TRUE, !.notice = ""]
            r2 == [r1 EXCEPT !.read = sdf]
        IN  IF p = "Home"
            THEN [session_df |-> IF cm THEN <<Clean(df[1])>> ELSE df,
                  messages |-> msgs, last |-> r1]
            ELSE IF sdf = <<>> THEN same([r1 EXCEPT !.notice = "need_home"])
            ELSE IF p = "Dashboard"
            THEN IF Len(nc) > 0
                 THEN IF nc[1] \in Range(ColNames(sdf[1]))
                      THEN same(r2)
                      ELSE same([r2 EXCEPT !.notice = "exception"])
                 ELSE same([r2 EXCEPT !.notice = "no_numeric"])
            ELSE IF p = "Custom"
            THEN IF gen /\ (Len(nc) = 0 \/ nc[1] \notin Range(ColNames(sdf[1])))
                 THEN same([r2 EXCEPT !.notice = "exception"])
                 ELSE same(r2)
            ELSE ChatPage(r2, sdf, msgs, sec, tk, prompt, api, prog)

\* The widgets a run rendered, which the next event can act on.
HomeRendered(r) == r.page = "Home" /\ r.loaded
KeyInputRendered(r, sec) == r.page = "Chat" /\ r.read # <<>> /\ sec = <<>>
ChatInputRendered(r) == r.page = "Chat" /\ r.client_created
GenerateRendered(r) == r.page = "Custom" /\ r.read # <<>>

\* The event's run of the script; a widget that was not rendered loses its value.
Rerun(f, p, cm, tk, prompt, gen, api, prog) ==
    LET out == RunScript(f, p, cm, tk, session_df, messages, secrets, prompt, gen, api, prog)
    IN  /\ uploaded_file' = f
        /\ page' = p
        /\ clean_mode' = (cm /\ HomeRendered(out.last))
        /\ text_key' = IF KeyInputRendered(out.last, secrets) THEN tk ELSE ""
        /\ session_df' = out.session_df
        /\ messages' = out.messages
        /\ last' = out.last
        /\ UNCHANGED secrets
        /\ UNCHANGED <<cleanVars, classifyVars, extractVars>>

Init ==
    /\ secrets \in {<<>>, <<"">>, <<"gsk_key">>}
    /\ uploaded_file = "none"
    /\ page = "Home"
    /\ clean_mode = FALSE
    /\ text_key = ""
    /\ session_df = <<>>
    /\ messages = <<>>
    /\ last = NoPass
    /\ CleanIdle /\ ClassifyIdle /\ ExtractIdle

\* A file is chosen in, or removed from, the uploader.
Upload ==
    \E f \in FileIds \cup {"none"} :
        /\ f # uploaded_file
        /\ Rerun(f, page, clean_mode, text_key, "", FALSE, "ok", NoProgram)

\* Another page is picked in the sidebar radio.
Navigate ==
    \E p \in Pages :
        /\ p # page
        /\ Rerun(uploaded_file, p, clean_mode, text_key, "", FALSE, "ok", NoProgram)

\* The auto-cleaning checkbox is ticked or cleared.
ToggleClean ==
    /\ HomeRendered(last)
    /\ Rerun(uploaded_file, page, ~clean_mode, text_key, "", FALSE, "ok", NoProgram)

\* A key is typed into, or cleared from, the key expander's text input.
EnterKey ==
    \E k \in {"", "gsk_key"} :
        /\ KeyInputRendered(last, secrets)
        /\ k # text_key
        /\ Rerun(uploaded_file, page, clean_mode, k, "", FALSE, "ok", NoProgram)

\* The Generate Analysis button of the custom report builder is pressed.
GenerateAnalysis ==
    /\ GenerateRendered(last)
    /\ Rerun(uploaded_file, page, clean_mode, text_key, "", TRUE, "ok", NoProgram)

\* A question is submitted in the chat input.
SubmitQuestion ==
    \E api \in {"ok", "error"}, prog \in Programs :
        /\ ChatInputRendered(last)
        /\ Len(messages[1]) < MaxLog
        /\ api = "error" => prog = NoProgram
        /\ Rerun(uploaded_file, page, clean_mode, text_key, "q", FALSE, api, prog)

Next ==
    \/ Upload
    \/ Navigate
    \/ ToggleClean
    \/ EnterKey
    \/ GenerateAnalysis
    \/ SubmitQuestion

Spec == Init /\ [][Next]_vars
\* The log before the last run, an unset log read as the empty list.
LogBefore == IF last.messages_before = <<>> THEN <<>> ELSE last.messages_before[1]

\* C3: when the generated code raised after writing to standard output, the
\* text captured before the failure is shown along with the error message.
C3_PartialOutputShown ==
    (last.exec_raised /\ last.printed # "") =>
        (last.shown_text = last.printed /\ last.notice = "exec_error")

\* C4: after a chat query that ended in an error notice, the conversation log
\* is the log before the query plus exactly the user's question.
C4_FailedQueryLogsQuestionOnly ==
    (last.prompt # "" /\ last.notice \in {"init_error", "exec_error"}) =>
        messages = <<Append(LogBefore, UserMsg(last.prompt))>>

\* C6 (as claimed): a file whose name ends in neither .csv nor .xlsx fails to
\* load with a load error, and the stored active table stays as it was.
C6_OtherSuffixRejected ==
    (last.file # "none" /\ Files[last.file].suffix \notin {".csv", ".xlsx"}) =>
        /\ ~last.loaded
        /\ last.notice = "load_error"
        /\ session_df = last.session_before

\* The parser the name selects cannot read the file's bytes.
ParserFails(id) ==
    \/ Files[id].suffix = ".csv" /\ Files[id].content # "csv"
    \/ Files[id].suffix # ".csv" /\ Files[id].content # "xlsx"

\* C6 (amended): when the parser selected by the name (the CSV parser for a
\* name ending in .csv, the spreadsheet parser for every other name) cannot
\* read the file, the run shows a load error, produces no table and leaves
\* the stored active table and the conversation log exactly as they were.
C6_FailedLoadKeepsActiveTable ==
    (last.file # "none" /\ ParserFails(last.file)) =>
        /\ ~last.loaded
        /\ last.notice = "load_error"
        /\ last.read = <<>>
        /\ session_df = last.session_before
        /\ messages = last.messages_before

\* A failed load on the Home page while an earlier file's table is stored.
C6_Witness ==
    /\ last.file # "none"
    /\ ParserFails(last.file)
    /\ last.page = "Home"
    /\ last.notice = "load_error"
    /\ session_df # <<>>

\* The credential of the last run: no secret and an empty key input, or an
\* empty secret.
CredentialEmpty ==
    \/ secrets = <<>> /\ last.key_input = ""
    \/ secrets = <<"">>

\* C8: in a run of the chat page with the credential absent or empty, no
\* client is created, no completion request is sent, no code is executed and
\* the conversation log is unchanged; where the page got as far as the key,
\* only the prompt for a key is shown.
C8_NoCredentialNoCall ==
    (last.page = "Chat" /\ CredentialEmpty) =>
        /\ ~last.client_created
        /\ ~last.request_sent
        /\ ~last.code_executed
        /\ messages = last.messages_before
        /\ session_df = last.session_before
        /\ last.read # <<>> => last.notice = "need_key"

\* The key prompt shown on the chat page after the key was cleared, with a
\* conversation already logged.
C8_Witness ==
    /\ last.page = "Chat"
    /\ CredentialEmpty
    /\ last.notice = "need_key"
    /\ messages # <<>>
    /\ Len(messages[1]) > 0

\* C9: whenever the dashboard, the custom chart builder or the chat reads the
\* active table, it is the raw or the cleaned table of the file now uploaded.
C9_ActiveTableOfCurrentFile ==
    last.read # <<>> =>
        last.read[1] \in {LoadData(last.file)[1], Clean(LoadData(last.file)[1])}

\* C10: after a dashboard, custom chart or chat run the stored active table
\* is cell for cell what it was before the run.
C10_DownstreamLeavesTable ==
    last.page \in {"Dashboard", "Custom", "Chat"} => session_df = last.session_before

====
